---- MODULE Spec2Model ----
\* A model of the backtest web application: the Streamlit script of app.py
\* (sidebar widgets, the two button handlers), the strategy dispatch of
\* strats.py and the configuration tables of trading.py.
\*
\* A Streamlit script is rerun from top to bottom after every widget
\* interaction; the widgets keep their values between reruns. One action of
\* the model is one interaction followed by the whole rerun it triggers.
EXTENDS Integers, Sequences, FiniteSets, TLC

VARIABLES
    current_date,    \* app.py:55  datetime.now(UTC), as a civil date [y, m, d]
    ticker,          \* app.py:44  text_input "Ticker"
    trading_style,   \* app.py:52  selectbox "Trading Style"
    start_date,      \* app.py:57  date_input "Start Date": [value, args]
    end_date,        \* app.py:58  date_input "End Date": [value, args]
    number_inputs,   \* the number_input widgets the last rerun rendered: label -> [value, default]
    selected_label,  \* app.py:67  selectbox "Strategy"
    direction,       \* app.py:81  selectbox "Direction"
    run,             \* what the last rerun did (calls made, outputs drawn)
    n_reruns,        \* reruns since the page was loaded
    n_clicks,        \* button clicks so far: [historical, backtest]
    n_calls,         \* calls so far: [fetch, from_signals]
    strategy_name,   \* strats.py:12 argument of a direct get_strategy_signals call
    short_mode,      \* strats.py:12 argument
    kwargs,          \* strats.py:12 argument
    outcome,         \* what the direct call did
    rsi,             \* strats.py:59 the values of the RSI indicator, bar by bar
    signals          \* strats.py:68 (entries, exits) evaluated bar by bar

vars == <<current_date, ticker, trading_style, start_date, end_date, number_inputs,
          selected_label, direction, run, n_reruns, n_clicks, n_calls,
          strategy_name, short_mode, kwargs, outcome, rsi, signals>>

appVars == <<current_date, ticker, trading_style, start_date, end_date, number_inputs,
             selected_label, direction, run, n_reruns, n_clicks, n_calls>>

stratVars == <<strategy_name, short_mode, kwargs, outcome, rsi, signals>>

-----------------------------------------------------------------------------
\* Bounds of the model.

\* Reruns followed after the page load.
MaxReruns == 3

\* Bars of an indicator series.
MaxLen == 3

-----------------------------------------------------------------------------
\* trading.py

TRADING_STYLES ==
    ("Intra (1m) (7 days max)" :> "1m") @@
    ("Swing (5m) (60 days max)" :> "5m") @@
    ("Position (1h) (60 days max)" :> "1h") @@
    ("Investing (1d) (10 year max)" :> "1d")

DEFAULT_VALUES ==
    ("Intra (1m) (7 days max)" :>
        [equity |-> 100000, size |-> 100, fast_sma |-> 5, slow_sma |-> 20,
         fast_ema |-> 9, slow_ema |-> 21, rsi_window |-> 5, overbought |-> 80,
         oversold |-> 20, bb_window |-> 10]) @@
    ("Swing (5m) (60 days max)" :>
        [equity |-> 100000, size |-> 100, fast_sma |-> 10, slow_sma |-> 50,
         fast_ema |-> 12, slow_ema |-> 26, rsi_window |-> 14, overbought |-> 70,
         oversold |-> 30, bb_window |-> 20]) @@
    ("Position (1h) (60 days max)" :>
        [equity |-> 100000, size |-> 100, fast_sma |-> 20, slow_sma |-> 100,
         fast_ema |-> 20, slow_ema |-> 50, rsi_window |-> 21, overbought |-> 65,
         oversold |-> 35, bb_window |-> 30]) @@
    ("Investing (1d) (10 year max)" :>
        [equity |-> 100000, size |-> 100, fast_sma |-> 50, slow_sma |-> 200,
         fast_ema |-> 50, slow_ema |-> 200, rsi_window |-> 30, overbought |-> 60,
         oversold |-> 40, bb_window |-> 50])

-----------------------------------------------------------------------------
\* strats.py: the table of strategies and the signal functions.

STRATEGIES ==
    ("SMA (Intraday)" :> "sma_strategy") @@
    ("EMA (Intraday)" :> "ema_strategy") @@
    ("RSI (Intraday)" :> "rsi_strategy") @@
    ("Bollinger Bands (Intraday)" :> "bollinger_bands_strategy")

\* The dictionary with two of its entries exchanged.
strategy_functions_exchanged ==
    ("SMA (Intraday)" :> "ema_strategy") @@
    ("EMA (Intraday)" :> "sma_strategy") @@
    ("RSI (Intraday)" :> "rsi_strategy") @@
    ("Bollinger Bands (Intraday)" :> "bollinger_bands_strategy")

\* The dictionary built inside get_strategy_signals (strats.py:14-19).
strategy_functions ==
    ("SMA (Intraday)" :> "sma_strategy") @@
    ("EMA (Intraday)" :> "ema_strategy") @@
    ("RSI (Intraday)" :> "rsi_strategy") @@
    ("Bollinger Bands (Intraday)" :> "bollinger_bands_strategy")

NoKwargs == [k \in {} |-> 0]

\* The keyword parameters of each signal function and their defaults
\* (the def lines of strats.py).
Signature(func) ==
    CASE func = "sma_strategy" -> ("fast_window" :> 5) @@ ("slow_window" :> 20)
      [] func = "ema_strategy" -> ("fast_window" :> 9) @@ ("slow_window" :> 21)
      [] func = "rsi_strategy" ->
            ("rsi_window" :> 5) @@ ("overbought" :> 80) @@ ("oversold" :> 20)
      [] func = "bollinger_bands_strategy" -> ("bb_window" :> 10)

\* Python's binding of **kwargs to a function's parameters: a keyword the
\* function does not declare is a TypeError, a parameter not given takes its
\* default.
Accepts(func, kw) == DOMAIN kw \subseteq DOMAIN Signature(func)

Bind(func, kw) ==
    [p \in DOMAIN Signature(func) |-> IF p \in DOMAIN kw THEN kw[p] ELSE Signature(func)[p]]

\* The indicator library's results are kept symbolic: an indicator is named by
\* the call that makes it, a signal by the comparison that makes it.
MA_run(data, window, ewm) == [ind |-> "MA", data |-> data, window |-> window, ewm |-> ewm]

RSI_run(data, window) == [ind |-> "RSI", data |-> data, window |-> window]

BBANDS_run(data, window, band) ==
    [ind |-> "BBANDS", data |-> data, window |-> window, band |-> band]

Signal(op, a, b) == [op |-> op, a |-> a, b |-> b]

sma_strategy(data, p, short) ==
    LET fast == MA_run(data, p["fast_window"], FALSE)
        slow == MA_run(data, p["slow_window"], FALSE)
    IN  IF short
        THEN <<Signal("crossed_below", fast, slow), Signal("crossed_above", fast, slow)>>
        ELSE <<Signal("crossed_above", fast, slow), Signal("crossed_below", fast, slow)>>

ema_strategy(data, p, short) ==
    LET fast == MA_run(data, p["fast_window"], TRUE)
        slow == MA_run(data, p["slow_window"], TRUE)
    IN  IF short
        THEN <<Signal("crossed_below", fast, slow), Signal("crossed_above", fast, slow)>>
        ELSE <<Signal("crossed_above", fast, slow), Signal("crossed_below", fast, slow)>>

rsi_strategy(data, p, short) ==
    LET r == RSI_run(data, p["rsi_window"])
    IN  IF short
        THEN <<Signal("crossed_above", r, p["overbought"]),
               Signal("crossed_below", r, p["oversold"])>>
        ELSE <<Signal("crossed_above", r, p["oversold"]),
               Signal("crossed_below", r, p["overbought"])>>

bollinger_bands_strategy(data, p, short) ==
    LET w == p["bb_window"]
    IN  IF short
        THEN <<Signal("gt", data, BBANDS_run(data, w, "upper")),
               Signal("lt", data, BBANDS_run(data, w, "middle"))>>
        ELSE <<Signal("lt", data, BBANDS_run(data, w, "lower")),
               Signal("gt", data, BBANDS_run(data, w, "middle"))>>

\* A call of the signal function named func: the record of the call and what
\* comes back from it (a pair of signals, or the TypeError of the binding).
CallStrategy(func, data, short, kw) ==
    LET call == [func |-> func, data |-> data, short_mode |-> short, kwargs |-> kw]
        p == Bind(func, kw)
    IN  IF ~Accepts(func, kw)
        THEN [calls |-> <<call>>, raised |-> "TypeError", result |-> <<>>]
        ELSE [calls |-> <<call>>, raised |-> "none",
              result |-> CASE func = "sma_strategy" -> sma_strategy(data, p, short)
                           [] func = "ema_strategy" -> ema_strategy(data, p, short)
                           [] func = "rsi_strategy" -> rsi_strategy(data, p, short)
                           [] func = "bollinger_bands_strategy" ->
                                  bollinger_bands_strategy(data, p, short)]

get_strategy_signals(data, name, short, kw) ==
    IF name \notin DOMAIN strategy_functions
    THEN [calls |-> <<>>, raised |-> "ValueError", result |-> <<>>]
    ELSE CallStrategy(strategy_functions[name], data, short, kw)

-----------------------------------------------------------------------------
\* app.py: dates. A date is a civil date [y, m, d]; datetime's arithmetic with
\* timedelta(days=n) works on the day number (date.toordinal).

IsLeap(y) == (y % 4 = 0) /\ ((y % 100 # 0) \/ (y % 400 = 0))

DaysBeforeYear(y) == (y - 1) * 365 + ((y - 1) \div 4) - ((y - 1) \div 100) + ((y - 1) \div 400)

DaysBeforeMonth(y, m) ==
    <<0, 31, 59, 90, 120, 151, 181, 212, 243, 273, 304, 334>>[m]
    + (IF m > 2 /\ IsLeap(y) THEN 1 ELSE 0)

toordinal(date) == DaysBeforeYear(date.y) + DaysBeforeMonth(date.y, date.m) + date.d

\* The days the page may be loaded on (the clock of datetime.now).
Dates ==
    { [y |-> 2024, m |-> 2, d |-> 29],
      [y |-> 2025, m |-> 3, d |-> 1],
      [y |-> 2026, m |-> 11, d |-> 3] }

\* app.py:50
days_back == ("1m" :> 7) @@ ("5m" :> 59) @@ ("1h" :> 60) @@ ("1d" :> 3650)

\* app.py:56  current_date - timedelta(days=days_back[interval]), as a day number
min_start_date(now, interval) == toordinal(now) - days_back[interval]

\* app.py:16-18
convert_to_timezone_aware(date_obj) == [date |-> date_obj, time |-> "00:00:00", tzinfo |-> "UTC"]

-----------------------------------------------------------------------------
\* app.py: the widgets. A widget without a key is identified by its label and
\* arguments: it keeps the value the user gave it from one rerun to the next as
\* long as these are the same, and starts again from its default when they
\* change.

Tickers == {"BTC-USD", "AAPL"}

Directions == {"longonly", "shortonly"}

date_input(stored, value, min_value, max_value) ==
    IF stored.args = <<value, min_value, max_value>>
    THEN stored
    ELSE [value |-> value, args |-> <<value, min_value, max_value>>]

number_input(store, label, value) ==
    IF label \in DOMAIN store /\ store[label].default = value
    THEN store[label]
    ELSE [value |-> value, default |-> value]

\* The min_value argument of the number inputs (app.py:64-79); the fees input
\* has none and is kept in hundredths of a percent.
min_value(label) ==
    CASE label = "Initial Equity ($)" -> 1000
      [] label = "Bollinger Bands Period" -> 5
      [] label = "Fees (as %)" -> 0
      [] OTHER -> 1

\* The values a user types into a number input.
UserValues(label) == {min_value(label), min_value(label) + 2}

\* app.py:70-79: the dynamic strategy input fields, as parameter -> [label, default].
StrategyFields(label, style) ==
    IF label \in {"SMA", "EMA"}
    THEN ("fast_window" :> [label |-> "Fast Window", value |-> DEFAULT_VALUES[style].fast_sma]) @@
         ("slow_window" :> [label |-> "Slow Window", value |-> DEFAULT_VALUES[style].slow_sma])
    ELSE IF label = "RSI"
    THEN ("rsi_window" :> [label |-> "RSI Period", value |-> DEFAULT_VALUES[style].rsi_window]) @@
         ("overbought" :> [label |-> "Overbought Level", value |-> DEFAULT_VALUES[style].overbought]) @@
         ("oversold" :> [label |-> "Oversold Level", value |-> DEFAULT_VALUES[style].oversold])
    ELSE IF label = "Bollinger Bands"
    THEN ("bb_window" :> [label |-> "Bollinger Bands Period", value |-> DEFAULT_VALUES[style].bb_window])
    ELSE [k \in {} |-> [label |-> "", value |-> 0]]

\* app.py:41-82: the sidebar, run on the widget values w the browser holds.
\* Gives the values the script reads from the widgets in this rerun.
Sidebar(now, w) ==
    LET interval == TRADING_STYLES[w.trading_style]
        today == toordinal(now)
        min_start == min_start_date(now, interval)
        start == date_input(w.start_date, min_start, min_start, today)
        end == date_input(w.end_date, today, start.value, today)
        fields == StrategyFields(w.selected_label, w.trading_style)
        fixed == ("Initial Equity ($)" :> DEFAULT_VALUES[w.trading_style].equity) @@
                 ("Position Size (%)" :> DEFAULT_VALUES[w.trading_style].size) @@
                 ("Fees (as %)" :> 12)
        dynamic == [l \in {fields[k].label : k \in DOMAIN fields} |->
                       (CHOOSE k \in DOMAIN fields : fields[k].label = l)]
        numbers == [l \in DOMAIN fixed \cup DOMAIN dynamic |->
                       IF l \in DOMAIN fixed
                       THEN number_input(w.number_inputs, l, fixed[l])
                       ELSE number_input(w.number_inputs, l, fields[dynamic[l]].value)]
    IN  [ticker |-> w.ticker,
         trading_style |-> w.trading_style,
         interval |-> interval,
         start_date |-> start,
         end_date |-> end,
         number_inputs |-> numbers,
         equity |-> numbers["Initial Equity ($)"].value,
         size |-> numbers["Position Size (%)"].value,
         fees |-> numbers["Fees (as %)"].value,
         selected_label |-> w.selected_label,
         strategy_params |-> [k \in DOMAIN fields |-> numbers[fields[k].label].value],
         direction |-> w.direction]

-----------------------------------------------------------------------------
\* app.py: fetching.

None == [type |-> "NoneType"]

\* What bt.YFData.download(...).get('Close') does: it raises (a network
\* error, a ticker the provider rejects), or gives None (no 'Close' column),
\* an empty series or a series with data.
DownloadErrors == {"ConnectionError", "ValueError"}

DownloadOutcomes == DownloadErrors \cup {"None", "empty", "series"}

Series(tk, interval, start, end, empty) ==
    [type |-> "Series", ticker |-> tk, interval |-> interval,
     start |-> start, end |-> end, empty |-> empty]

\* app.py:33  except Exception: the classes the clause catches.
except_Exception(cls) == cls \in {"ConnectionError", "ValueError", "TypeError", "KeyError"}

\* The fetch without the test of data.empty.
fetch_historical_data_keeps_empty(tk, interval, start, end, dl) ==
    LET call == [ticker |-> tk, interval |-> interval,
                 start |-> convert_to_timezone_aware(start),
                 end |-> convert_to_timezone_aware(end)]
        data == IF dl = "None" THEN None
                ELSE Series(tk, interval, call.start, call.end, dl = "empty")
    IN  IF dl \in DownloadErrors
        THEN [call |-> call, download |-> dl, raised |-> "none", result |-> None,
              errors |-> <<"Error fetching data">>]
        ELSE IF data = None
        THEN [call |-> call, download |-> dl, raised |-> "none", result |-> None,
              errors |-> <<"No data available">>]
        ELSE [call |-> call, download |-> dl, raised |-> "none", result |-> data,
              errors |-> <<>>]

\* app.py:20-35
fetch_historical_data(tk, interval, start, end, dl) ==
    LET call == [ticker |-> tk, interval |-> interval,
                 start |-> convert_to_timezone_aware(start),
                 end |-> convert_to_timezone_aware(end)]
        data == IF dl = "None" THEN None
                ELSE Series(tk, interval, call.start, call.end, dl = "empty")
    IN  IF dl \in DownloadErrors
        THEN IF except_Exception(dl)
             THEN [call |-> call, download |-> dl, raised |-> "none", result |-> None,
                   errors |-> <<"Error fetching data">>]
             ELSE [call |-> call, download |-> dl, raised |-> dl, result |-> None,
                   errors |-> <<>>]
        ELSE IF data = None \/ data.empty
        THEN [call |-> call, download |-> dl, raised |-> "none", result |-> None,
              errors |-> <<"No data available">>]
        ELSE [call |-> call, download |-> dl, raised |-> "none", result |-> data,
              errors |-> <<>>]

-----------------------------------------------------------------------------
\* app.py:84-144: the two button handlers.

NoRun ==
    [historical_clicked |-> FALSE, backtest_clicked |-> FALSE, strategy_params |-> NoKwargs,
     fetches |-> <<>>, errors |-> <<>>, charts |-> <<>>,
     signal_calls |-> <<>>, strategy_calls |-> <<>>, signals |-> <<>>,
     from_signals_calls |-> <<>>, tabs |-> <<>>, raised |-> "none"]

\* The record of a rerun after a fetch f.
Fetched(r, f) ==
    [r EXCEPT !.fetches = Append(@, f),
              !.errors = @ \o f.errors,
              !.raised = f.raised]

\* app.py:87-99, after the fetch f
HistoricalChart(r, f) ==
    IF f.raised # "none" \/ f.result = None
    THEN r
    ELSE [r EXCEPT !.charts = Append(@, [chart |-> "price", data |-> f.result])]

\* app.py:85-99
Historical(s, r, dl) ==
    HistoricalChart(
        Fetched(r, fetch_historical_data(s.ticker, s.interval, s.start_date.value, s.end_date.value, dl)),
        fetch_historical_data(s.ticker, s.interval, s.start_date.value, s.end_date.value, dl))

\* app.py:108-144, after the signals g of line 106
BacktestPortfolio(s, r, data, g) ==
    IF g.raised # "none"
    THEN [r EXCEPT !.strategy_calls = @ \o g.calls, !.raised = g.raised]
    ELSE [r EXCEPT !.strategy_calls = @ \o g.calls,
                   !.signals = g.result,
                   !.from_signals_calls =
                       Append(@, [data |-> data, entries |-> g.result[1], exits |-> g.result[2],
                                  direction |-> s.direction, size |-> <<s.size, 100>>,
                                  size_type |-> "percent", fees |-> <<s.fees, 10000>>,
                                  init_cash |-> s.equity, freq |-> s.interval]),
                   !.tabs = <<"Graphs", "Statistics", "Trades">>,
                   !.charts = @ \o <<[chart |-> "equity", data |-> data],
                                     [chart |-> "drawdown", data |-> data],
                                     [chart |-> "portfolio", data |-> data]>>]

\* app.py:104-144, after the fetch f
BacktestSignals(s, r, f) ==
    IF f.raised # "none" \/ f.result = None
    THEN r
    ELSE BacktestPortfolio(
            s,
            [r EXCEPT !.signal_calls =
                Append(@, [data |-> f.result, name |-> s.selected_label,
                           short_mode |-> (s.direction = "shortonly"),
                           kwargs |-> s.strategy_params])],
            f.result,
            get_strategy_signals(f.result, s.selected_label, s.direction = "shortonly",
                                 s.strategy_params))

\* app.py:102-144
Backtest(s, r, dl) ==
    BacktestSignals(
        s,
        Fetched(r, fetch_historical_data(s.ticker, s.interval, s.start_date.value, s.end_date.value, dl)),
        fetch_historical_data(s.ticker, s.interval, s.start_date.value, s.end_date.value, dl))

\* The handlers with the price chart drawn on every rerun.
Handlers_unguarded(s, r, historical_clicked, backtest_clicked, dl) ==
    IF backtest_clicked THEN Backtest(s, Historical(s, r, dl), dl) ELSE Historical(s, r, dl)

\* app.py:84-144: the handlers, on the sidebar's values s.
Handlers(s, r, historical_clicked, backtest_clicked, dl) ==
    IF historical_clicked
    THEN IF backtest_clicked THEN Backtest(s, Historical(s, r, dl), dl) ELSE Historical(s, r, dl)
    ELSE IF backtest_clicked THEN Backtest(s, r, dl) ELSE r

ScriptOn(s, historical_clicked, backtest_clicked, dl) ==
    [sidebar |-> s,
     run |-> Handlers(s,
                      [NoRun EXCEPT !.historical_clicked = historical_clicked,
                                    !.backtest_clicked = backtest_clicked,
                                    !.strategy_params = s.strategy_params],
                      historical_clicked, backtest_clicked, dl)]

\* One run of the script from top to bottom.
Script(now, w, historical_clicked, backtest_clicked, dl) ==
    ScriptOn(Sidebar(now, w), historical_clicked, backtest_clicked, dl)

-----------------------------------------------------------------------------
\* The indicator library's crossing test, bar by bar (vectorbt's
\* crossed_above_1d_nb with wait = 0), used by strats.py:62-66. a crosses above
\* b on the first bar a is above b after a bar where it was below; a NaN
\* forgets that it was below. A NaN is written as a negative number.

IsNaN(x) == x < 0

RECURSIVE CrossScan(_, _, _, _, _)
CrossScan(a, b, i, was_below, crossed_ago) ==
    IF i > Len(a)
    THEN <<>>
    ELSE LET nan == IsNaN(a[i]) \/ IsNaN(b[i])
             above == ~nan /\ a[i] > b[i]
             below == ~nan /\ a[i] < b[i]
             ago == IF above /\ was_below THEN crossed_ago + 1 ELSE -1
             was == IF nan THEN FALSE ELSE (was_below \/ below)
         IN  <<above /\ was_below /\ ago = 0>> \o CrossScan(a, b, i + 1, was, ago)

crossed_above(a, b) == CrossScan(a, b, 1, FALSE, -1)

crossed_below(a, b) == CrossScan(b, a, 1, FALSE, -1)

\* A signal of rsi_strategy on the indicator values r: the level is compared
\* with every bar.
Evaluate(sig, r) ==
    IF sig.op = "crossed_above"
    THEN crossed_above(r, [i \in 1..Len(r) |-> sig.b])
    ELSE crossed_below(r, [i \in 1..Len(r) |-> sig.b])

-----------------------------------------------------------------------------
\* The application: page load and reruns.

Idle == [calls |-> <<>>, raised |-> "idle", result |-> <<>>]

StratIdle ==
    /\ strategy_name = ""
    /\ short_mode = FALSE
    /\ kwargs = NoKwargs
    /\ outcome = Idle
    /\ rsi = <<>>
    /\ signals = <<>>

\* The widgets of a freshly loaded page: nothing stored, the select boxes on
\* their first option (index=0).
FreshWidgets ==
    [ticker |-> "BTC-USD",
     trading_style |-> "Intra (1m) (7 days max)",
     start_date |-> [value |-> 0, args |-> <<>>],
     end_date |-> [value |-> 0, args |-> <<>>],
     number_inputs |-> [l \in {} |-> [value |-> 0, default |-> 0]],
     selected_label |-> "SMA (Intraday)",
     direction |-> "longonly"]

Widgets ==
    [ticker |-> ticker,
     trading_style |-> trading_style,
     start_date |-> start_date,
     end_date |-> end_date,
     number_inputs |-> number_inputs,
     selected_label |-> selected_label,
     direction |-> direction]

\* The page is loaded on day now: the script runs once, no button clicked.
PageLoad(now) ==
    \E sc \in {Script(now, FreshWidgets, FALSE, FALSE, "series")} :
        /\ current_date = now
        /\ ticker = sc.sidebar.ticker
        /\ trading_style = sc.sidebar.trading_style
        /\ start_date = sc.sidebar.start_date
        /\ end_date = sc.sidebar.end_date
        /\ number_inputs = sc.sidebar.number_inputs
        /\ selected_label = sc.sidebar.selected_label
        /\ direction = sc.sidebar.direction
        /\ run = sc.run
        /\ n_reruns = 0
        /\ n_clicks = [historical |-> 0, backtest |-> 0]
        /\ n_calls = [fetch |-> 0, from_signals |-> 0]

Init == (\E now \in Dates : PageLoad(now)) /\ StratIdle

\* A rerun of the script on the widget values w.
Rerun(w, historical_clicked, backtest_clicked, dl) ==
    \E sc \in {Script(current_date, w, historical_clicked, backtest_clicked, dl)} :
        /\ n_reruns < MaxReruns
        /\ ticker' = sc.sidebar.ticker
        /\ trading_style' = sc.sidebar.trading_style
        /\ start_date' = sc.sidebar.start_date
        /\ end_date' = sc.sidebar.end_date
        /\ number_inputs' = sc.sidebar.number_inputs
        /\ selected_label' = sc.sidebar.selected_label
        /\ direction' = sc.sidebar.direction
        /\ run' = sc.run
        /\ n_reruns' = n_reruns + 1
        /\ n_clicks' = [historical |-> n_clicks.historical + (IF historical_clicked THEN 1 ELSE 0),
                        backtest |-> n_clicks.backtest + (IF backtest_clicked THEN 1 ELSE 0)]
        /\ n_calls' = [fetch |-> n_calls.fetch + Len(sc.run.fetches),
                       from_signals |-> n_calls.from_signals + Len(sc.run.from_signals_calls)]
        /\ UNCHANGED <<current_date, stratVars>>

SetTicker ==
    \E t \in Tickers \ {ticker} :
        Rerun([Widgets EXCEPT !.ticker = t], FALSE, FALSE, "series")

SetTradingStyle ==
    \E st \in DOMAIN TRADING_STYLES \ {trading_style} :
        Rerun([Widgets EXCEPT !.trading_style = st], FALSE, FALSE, "series")

\* The date inputs accept the days from min_value to max_value.
SetStartDate ==
    \E d \in {start_date.args[2], start_date.args[3] - 1, start_date.args[3]} \ {start_date.value} :
        /\ start_date.args[2] <= d /\ d <= start_date.args[3]
        /\ Rerun([Widgets EXCEPT !.start_date.value = d], FALSE, FALSE, "series")

SetEndDate ==
    \E d \in {end_date.args[2], end_date.args[3]} \ {end_date.value} :
        /\ end_date.args[2] <= d /\ d <= end_date.args[3]
        /\ Rerun([Widgets EXCEPT !.end_date.value = d], FALSE, FALSE, "series")

\* The user types a value into one of the number inputs on the page.
SetNumberInput ==
    \E l \in DOMAIN number_inputs : \E v \in UserValues(l) \ {number_inputs[l].value} :
        Rerun([Widgets EXCEPT !.number_inputs[l].value = v], FALSE, FALSE, "series")

SetStrategy ==
    \E l \in DOMAIN STRATEGIES \ {selected_label} :
        Rerun([Widgets EXCEPT !.selected_label = l], FALSE, FALSE, "series")

SetDirection ==
    \E d \in Directions \ {direction} :
        Rerun([Widgets EXCEPT !.direction = d], FALSE, FALSE, "series")

\* A click on a button reruns the script with that button, and only that
\* button, returning True.
ClickHistorical == \E dl \in DownloadOutcomes : Rerun(Widgets, TRUE, FALSE, dl)

ClickBacktest == \E dl \in DownloadOutcomes : Rerun(Widgets, FALSE, TRUE, dl)

Next ==
    \/ SetTicker
    \/ SetTradingStyle
    \/ SetStartDate
    \/ SetEndDate
    \/ SetNumberInput
    \/ SetStrategy
    \/ SetDirection
    \/ ClickHistorical
    \/ ClickBacktest

Spec == Init /\ [][Next]_vars

-----------------------------------------------------------------------------
\* strats.py called directly: get_strategy_signals on any name and keyword
\* arguments, and the signals of the RSI strategy on the indicator's values.

StrategyNames == DOMAIN STRATEGIES \cup {"SMA", "RSI", "sma_strategy", ""}

KwargsChoices ==
    { NoKwargs,
      ("fast_window" :> 10) @@ ("slow_window" :> 50),
      ("rsi_window" :> 14) @@ ("overbought" :> 70) @@ ("oversold" :> 30),
      ("overbought" :> 50) @@ ("oversold" :> 50),
      ("bb_window" :> 20) }

RsiValues == {-1, 10, 20, 30, 50, 70, 80, 90}

RsiSeries == UNION { [1..n -> RsiValues] : n \in 1..MaxLen }

TheData == Series("BTC-USD", "1m", convert_to_timezone_aware(0), convert_to_timezone_aware(1), FALSE)

InitStrats ==
    /\ PageLoad(CHOOSE now \in Dates : TRUE)
    /\ strategy_name \in StrategyNames
    /\ short_mode \in BOOLEAN
    /\ kwargs \in KwargsChoices
    /\ outcome = Idle
    /\ rsi = <<>>
    /\ signals = <<>>

CallGetStrategySignals ==
    /\ outcome = Idle
    /\ outcome' = get_strategy_signals(TheData, strategy_name, short_mode, kwargs)
    /\ UNCHANGED <<appVars, strategy_name, short_mode, kwargs, rsi, signals>>

\* bt.RSI.run gives the indicator's values r; the signals are compared bar by bar.
EvaluateRsiSignals ==
    /\ outcome.raised = "none"
    /\ outcome.calls[1].func = "rsi_strategy"
    /\ signals = <<>>
    /\ \E r \in RsiSeries :
        /\ rsi' = r
        /\ signals' = <<Evaluate(outcome.result[1], r), Evaluate(outcome.result[2], r)>>
    /\ UNCHANGED <<appVars, strategy_name, short_mode, kwargs, outcome>>

NextStrats == CallGetStrategySignals \/ EvaluateRsiSignals

SpecStrats == InitStrats /\ [][NextStrats]_vars

-----------------------------------------------------------------------------
\* Properties.

\* The input field the sidebar shows for a strategy parameter (app.py:72-79).
FieldLabel ==
    ("fast_window" :> "Fast Window") @@ ("slow_window" :> "Slow Window") @@
    ("rsi_window" :> "RSI Period") @@ ("overbought" :> "Overbought Level") @@
    ("oversold" :> "Oversold Level") @@ ("bb_window" :> "Bollinger Bands Period")

\* C1: on a Run Backtest click, the keyword arguments passed to
\* get_strategy_signals are the parameters of the selected strategy, each with
\* the value of its input field in the sidebar.
C1_KwargsCarryInputFields ==
    \A i \in 1..Len(run.signal_calls) :
        LET c == run.signal_calls[i]
        IN  /\ DOMAIN c.kwargs = DOMAIN Signature(STRATEGIES[c.name])
            /\ \A p \in DOMAIN c.kwargs :
                /\ FieldLabel[p] \in DOMAIN number_inputs
                /\ c.kwargs[p] = number_inputs[FieldLabel[p]].value

\* C2: get_strategy_signals calls, for a key of STRATEGIES, the function
\* STRATEGIES names for it, once, with the data, short_mode and keyword
\* arguments it was given, and what that call gives is what it gives; for any
\* other name it raises ValueError and calls nothing.
C2_DispatchTable ==
    outcome # Idle =>
        IF strategy_name \in DOMAIN STRATEGIES
        THEN /\ outcome.calls = <<[func |-> STRATEGIES[strategy_name], data |-> TheData,
                                   short_mode |-> short_mode, kwargs |-> kwargs]>>
             /\ outcome.raised # "ValueError"
             /\ outcome.raised = CallStrategy(STRATEGIES[strategy_name], TheData, short_mode, kwargs).raised
             /\ outcome.result = CallStrategy(STRATEGIES[strategy_name], TheData, short_mode, kwargs).result
        ELSE /\ outcome.raised = "ValueError"
             /\ outcome.calls = <<>>

\* The EMA strategy was dispatched with keyword arguments and gave its signals.
C2_Witness ==
    /\ strategy_name = "EMA (Intraday)"
    /\ kwargs # NoKwargs
    /\ outcome.raised = "none"
    /\ outcome.calls[1].func = "ema_strategy"
    /\ outcome.result[1].a.ewm

\* The entry of DEFAULT_VALUES a strategy parameter takes its default from.
DefaultKey(func) ==
    CASE func = "sma_strategy" -> ("fast_window" :> "fast_sma") @@ ("slow_window" :> "slow_sma")
      [] func = "ema_strategy" -> ("fast_window" :> "fast_ema") @@ ("slow_window" :> "slow_ema")
      [] func = "rsi_strategy" ->
            ("rsi_window" :> "rsi_window") @@ ("overbought" :> "overbought") @@
            ("oversold" :> "oversold")
      [] func = "bollinger_bands_strategy" -> ("bb_window" :> "bb_window")

\* No strategy parameter input on the page holds a value other than its default.
Untouched ==
    \A p \in DOMAIN FieldLabel :
        FieldLabel[p] \in DOMAIN number_inputs =>
            number_inputs[FieldLabel[p]].value = number_inputs[FieldLabel[p]].default

\* C3: with the parameter inputs untouched, the parameters a strategy
\* function runs with are the DEFAULT_VALUES of the selected trading style.
C3_StyleDefaultsUsed ==
    \A i \in 1..Len(run.strategy_calls) :
        LET c == run.strategy_calls[i]
        IN  (Untouched /\ Accepts(c.func, c.kwargs)) =>
                \A p \in DOMAIN Signature(c.func) :
                    Bind(c.func, c.kwargs)[p] = DEFAULT_VALUES[trading_style][DefaultKey(c.func)[p]]

\* The request made for the widgets' current values.
CurrentRequest ==
    [ticker |-> ticker, interval |-> TRADING_STYLES[trading_style],
     start |-> convert_to_timezone_aware(start_date.value),
     end |-> convert_to_timezone_aware(end_date.value)]

\* C4: a rerun fetches only when a button was clicked and calls
\* Portfolio.from_signals only when Run Backtest was clicked: Get Historical
\* gives one fetch and no from_signals; Run Backtest gives one fetch, for the
\* current ticker, interval and dates, and at most one from_signals, on the
\* data of that fetch; no click gives neither. Over all reruns, the fetches
\* are as many as the clicks.
C4_FetchOnlyOnClick ==
    /\ (~run.historical_clicked /\ ~run.backtest_clicked) =>
            (run.fetches = <<>> /\ run.from_signals_calls = <<>>)
    /\ (run.historical_clicked /\ ~run.backtest_clicked) =>
            (Len(run.fetches) = 1 /\ run.from_signals_calls = <<>>)
    /\ (run.backtest_clicked /\ ~run.historical_clicked) =>
            /\ Len(run.fetches) = 1
            /\ run.fetches[1].call = CurrentRequest
            /\ Len(run.from_signals_calls) <= 1
            /\ \A i \in 1..Len(run.from_signals_calls) :
                run.from_signals_calls[i].data = run.fetches[1].result
    /\ n_calls.fetch = n_clicks.historical + n_clicks.backtest
    /\ n_calls.from_signals <= n_clicks.backtest

\* After a Get Historical click, the ticker was changed and Run Backtest
\* clicked: the backtest ran on the new ticker's data.
C4_Witness ==
    /\ n_clicks.historical = 1
    /\ n_clicks.backtest = 1
    /\ run.backtest_clicked
    /\ ticker = "AAPL"
    /\ Len(run.from_signals_calls) = 1
    /\ run.from_signals_calls[1].data.ticker = "AAPL"

\* The maximum a trading style's label states (trading.py:2-5), in days
\* before the day now; ten years before a day is the same day of the year ten
\* years earlier.
TenYearsBefore(now) ==
    [y |-> now.y - 10, m |-> now.m,
     d |-> IF now.m = 2 /\ now.d = 29 /\ ~IsLeap(now.y - 10) THEN 28 ELSE now.d]

StatedMaxDays(style, now) ==
    CASE style = "Intra (1m) (7 days max)" -> 7
      [] style = "Swing (5m) (60 days max)" -> 60
      [] style = "Position (1h) (60 days max)" -> 60
      [] style = "Investing (1d) (10 year max)" -> toordinal(now) - toordinal(TenYearsBefore(now))

\* C5: the earliest start date the date input allows lies as far back as the
\* maximum in the trading style's label.
C5_EarliestStartMatchesLabel ==
    toordinal(current_date) - start_date.args[2] = StatedMaxDays(trading_style, current_date)

\* C6: fetch_historical_data does not raise; it gives None, with an error
\* shown, when the download raises or gives None or an empty series, and the
\* series otherwise; and after None the handler does nothing more: no chart,
\* no call of get_strategy_signals or Portfolio.from_signals, no tabs.
C6_FetchNeverRaises ==
    \A i \in 1..Len(run.fetches) :
        LET f == run.fetches[i]
        IN  /\ f.raised = "none"
            /\ run.raised = "none"
            /\ f.download # "series" => (f.result = None /\ Len(f.errors) = 1)
            /\ f.download = "series" =>
                  (f.result # None /\ ~f.result.empty /\ f.errors = <<>>)
            /\ f.result # None => ~f.result.empty
            /\ f.result = None =>
                  /\ run.errors = f.errors
                  /\ run.charts = <<>>
                  /\ run.signal_calls = <<>>
                  /\ run.strategy_calls = <<>>
                  /\ run.from_signals_calls = <<>>
                  /\ run.tabs = <<>>

\* Run Backtest was clicked and the download gave an empty series.
C6_Witness ==
    /\ run.backtest_clicked
    /\ Len(run.fetches) = 1
    /\ run.fetches[1].download = "empty"
    /\ run.fetches[1].result = None

\* The RSI is in the oversold zone below the oversold level and in the
\* overbought zone above the overbought level; it enters a zone on a bar where
\* it is in the zone and was not on the bar before.
InOversold(x, level) == ~IsNaN(x) /\ x < level

InOverbought(x, level) == ~IsNaN(x) /\ x > level

EntersOversold(r, i, level) ==
    InOversold(r[i], level) /\ (i > 1 => ~InOversold(r[i - 1], level))

EntersOverbought(r, i, level) ==
    InOverbought(r[i], level) /\ (i > 1 => ~InOverbought(r[i - 1], level))

\* C7: the RSI strategy's long entries are on bars where the RSI enters the
\* oversold zone and its long exits on bars where it enters the overbought
\* zone; its short entries are on bars where the RSI enters the overbought
\* zone and its short exits on bars where it enters the oversold zone.
C7_RsiZones ==
    signals # <<>> =>
        LET p == Bind("rsi_strategy", kwargs)
        IN  \A i \in 1..Len(rsi) :
                IF short_mode
                THEN /\ signals[1][i] => EntersOverbought(rsi, i, p["overbought"])
                     /\ signals[2][i] => EntersOversold(rsi, i, p["oversold"])
                ELSE /\ signals[1][i] => EntersOversold(rsi, i, p["oversold"])
                     /\ signals[2][i] => EntersOverbought(rsi, i, p["overbought"])

====
